---- MODULE Spec2Model ----
(***************************************************************************)
(* Mail cache and scoring engine of kv2 (MailCacheService): the per-user   *)
(* index document, the message documents, the import pipeline, the         *)
(* enrichment pipeline with its five passes, view maintenance, rescore and *)
(* archive.                                                                *)
(*                                                                         *)
(* Conventions.  Strings that the code splits or concatenates (ids) are    *)
(* sequences of one-character strings.  Scores are integers in thousandths *)
(* (One = 1.0); every input score is a multiple of 0.05 so that the        *)
(* weighted sums of the code are exact.  Free text (title, summaries) is   *)
(* the set of vocabulary words it contains; a keyword test of the code     *)
(* (String.includes) is the set of vocabulary words that contain one of    *)
(* its keywords as a substring.                                            *)
(***************************************************************************)
EXTENDS Integers, Sequences, FiniteSets, TLC

(* ------------------------------ bounds -------------------------------- *)
\* number of distinct provider messages that can ever show up in the mailbox
NumMsgs == 2

\* longest account id and provider id put through composeId and decomposeId
MaxIdLen == 2

\* fleet refresh requests that reach the handler, and users userService.getUsers lists
NumReqs == 3
NumUsers == 2

\* length of the summarization queue one enrichment run goes through
MaxQueue == 6
\* number of steps (mailbox changes and cache operations) of one run
MaxSteps == 7

(* ------------------------- program constants -------------------------- *)
BATCH_SIZE == 5
One == 1000

(* ---------------------------- sequences ------------------------------- *)
Range(s) == {s[i] : i \in 1..Len(s)}

Includes(s, x) == \E i \in 1..Len(s) : s[i] = x

\* Array.prototype.indexOf, 0 standing for -1
IndexOf(s, x) ==
  IF Includes(s, x) THEN CHOOSE i \in 1..Len(s) : s[i] = x /\ \A j \in 1..(i-1) : s[j] # x
  ELSE 0

\* Array.prototype.splice(i, 1)
Splice(s, i) == SubSeq(s, 1, i-1) \o SubSeq(s, i+1, Len(s))

\* Array.from(new Set(s)): first occurrences, in order
Dedup(s) ==
  LET firsts == {i \in 1..Len(s) : \A j \in 1..(i-1) : s[j] # s[i]}
  IN [k \in 1..Cardinality(firsts) |->
        s[CHOOSE i \in firsts : Cardinality({j \in firsts : j < i}) = k - 1]]

Min(a, b) == IF a < b THEN a ELSE b
Max(a, b) == IF a > b THEN a ELSE b

(* ------------------------ users and accounts -------------------------- *)
\* the user the cache instance was created for (9 characters: one more than
\* the prefix composeId keeps)
UserId == <<"u", "s", "r", "-", "0", "0", "0", "1", "a">>

\* user.getUserAccounts: the linked accounts, in Object.entries order
AccountList ==
  << [id |-> <<"g">>, type |-> "google", token |-> TRUE],
     [id |-> <<"s">>, type |-> "slack", token |-> TRUE] >>

GoogleAccounts == SelectSeq(AccountList, LAMBDA a : a.type = "google")

GoogleIds == {GoogleAccounts[i].id : i \in 1..Len(GoogleAccounts)}

\* provider message ids, one character each; a larger index is a newer message
MidChars == <<"1", "2", "3", "4", "5">>
MidIdx == 1..NumMsgs
Mid(i) == <<MidChars[i]>>

(* --------------------------- composite ids ---------------------------- *)
\* String.prototype.substring(0, n)
Substring(s, n) == SubSeq(s, 1, Min(n, Len(s)))

\* composeId of the cache instance of user userId
composeIdFor(userId, accountId, providerId) ==
  Substring(userId, 8) \o <<"#">> \o accountId \o <<"#">> \o providerId

composeId(accountId, providerId) == composeIdFor(UserId, accountId, providerId)

\* String.prototype.split('#')
RECURSIVE Split(_)
Split(s) ==
  IF ~Includes(s, "#") THEN <<s>>
  ELSE LET i == IndexOf(s, "#")
       IN <<SubSeq(s, 1, i-1)>> \o Split(SubSeq(s, i+1, Len(s)))

\* the parts taken one position too early
decomposeId_OffByOne(id) ==
  LET parts == Split(id)
  IN IF Len(parts) < 3
     THEN [err |-> TRUE, userId |-> <<>>, accountId |-> <<>>, providerId |-> <<>>]
     ELSE [err |-> FALSE, userId |-> parts[1], accountId |-> parts[1],
           providerId |-> parts[2]]

decomposeId(id) ==
  LET parts == Split(id)
  IN IF Len(parts) < 3
     THEN [err |-> TRUE, userId |-> <<>>, accountId |-> <<>>, providerId |-> <<>>]
     ELSE [err |-> FALSE, userId |-> parts[1], accountId |-> parts[2],
           providerId |-> parts[3]]

AllIds == {composeId(a, Mid(i)) : a \in GoogleIds, i \in MidIdx}

\* index of the provider message a composite id stands for
MidOf(id) == CHOOSE i \in 1..Len(MidChars) : <<MidChars[i]>> = decomposeId(id).providerId

(* --------------------------- mailbox content -------------------------- *)
\* what gmailClient.get returns for provider message i: Subject words, From
\* address and the day of its Date header.  All mail is addressed to To.
ContentTable ==
  << [title |-> {"invoice"},        from |-> "noreply@shop.com", date |-> 10],
     [title |-> {"meeting"},        from |-> "boss@corp.com",    date |-> 19],
     [title |-> {"hello"},          from |-> "pal@gmail.com",    date |-> 15],
     [title |-> {"sale", "update"}, from |-> "noreply@shop.com", date |-> 5],
     [title |-> {"problem"},        from |-> "boss@corp.com",    date |-> 12] >>

To == "me@corp.com"

\* the domain after '@' (split('@')[1] and _extractDomainFromEmail agree on
\* the addresses of the model)
DomainOf(addr) ==
  CASE addr = "noreply@shop.com" -> "shop.com"
    [] addr = "boss@corp.com"    -> "corp.com"
    [] addr = "pal@gmail.com"    -> "gmail.com"
    [] addr = "me@corp.com"      -> "corp.com"

\* this._contacts.includes(from)
Contacts == {"pal@gmail.com"}

\* the message document importNewEmails writes for a new composite id
ImportedDoc(id) ==
  LET c == ContentTable[MidOf(id)]
  IN [exists |-> TRUE, _id |-> id,
      title |-> c.title, from |-> c.from, date |-> c.date, attachments |-> {},
      importanceScore |-> 0, spamScore |-> 0,
      summarized |-> FALSE, autoSummary |-> {}, shortSummary |-> {},
      actionItems |-> 0, urgentAction |-> FALSE, deadlines |-> "none",
      category |-> "", sentiment |-> "", labels |-> <<>>,
      scored |-> FALSE, urgencyScore |-> 0, deletableScore |-> 0,
      priorityScore |-> 0, priorityLabel |-> "",
      attachmentTypes |-> {}, tone |-> "", decayApplied |-> FALSE, decayFactor |-> 0]

\* firestore.read of a document that does not exist (null)
NoDoc ==
  [exists |-> FALSE, _id |-> <<>>,
   title |-> {}, from |-> "", date |-> 0, attachments |-> {},
   importanceScore |-> 0, spamScore |-> 0,
   summarized |-> FALSE, autoSummary |-> {}, shortSummary |-> {},
   actionItems |-> 0, urgentAction |-> FALSE, deadlines |-> "none",
   category |-> "", sentiment |-> "", labels |-> <<>>,
   scored |-> FALSE, urgencyScore |-> 0, deletableScore |-> 0,
   priorityScore |-> 0, priorityLabel |-> "",
   attachmentTypes |-> {}, tone |-> "", decayApplied |-> FALSE, decayFactor |-> 0]

(* --------------------------- keyword tests ---------------------------- *)
\* The vocabulary of the model is
\*   invoice bill sale update meeting urgent thanks problem hello
\* and each definition below is the part of the vocabulary that contains a
\* keyword of the named list of the code as a substring.
InvoiceWords      == {"invoice", "bill"}
PromotionalWords  == {"sale"}
NewsletterWords   == {"update"}
FinancialWords    == {"invoice"}
EventWords        == {"meeting"}
NotificationWords == {"update"}
BusinessWords     == {"meeting"}
PositiveWords     == {"thanks"}
NegativeWords     == {"problem"}
UrgentWords       == {"urgent"}

\* keywords.some(k => shortSummary.includes(k) || title.includes(k))
Mentions(email, words) == (email.shortSummary \cup email.title) \cap words # {}

\* String.prototype.toLowerCase on the category and sentiment names
Lower(s) ==
  CASE s = "Promotional"  -> "promotional"
    [] s = "Notification" -> "notification"
    [] s = "Confirmation" -> "confirmation"
    [] s = "Newsletter"   -> "newsletter"
    [] s = "Business"     -> "business"
    [] s = "Financial"    -> "financial"
    [] s = "Urgent"       -> "urgent"
    [] s = "Negative"     -> "negative"
    [] s = "Positive"     -> "positive"
    [] s = "Neutral"      -> "neutral"
    [] OTHER              -> s

(* ------------------------- AI summarization --------------------------- *)
\* What aiDriver.converse returned, after the code looked for a JSON object,
\* parsed it and checked its shape: json = an object was found and parsed,
\* shape = every field is present with the required type.
AIReplies ==
  { [json |-> TRUE, shape |-> TRUE, importanceScore |-> 900, spamScore |-> 0,
     category |-> "Business", sentiment |-> "Neutral", actionItems |-> 1,
     urgentAction |-> FALSE, deadlines |-> "far",
     extendedSummary |-> {"meeting"}, shortSummary |-> {"meeting"}],
    [json |-> TRUE, shape |-> TRUE, importanceScore |-> 100, spamScore |-> 500,
     category |-> "Promotional", sentiment |-> "Positive", actionItems |-> 0,
     urgentAction |-> FALSE, deadlines |-> "none",
     extendedSummary |-> {"sale"}, shortSummary |-> {"sale", "invoice"}],
    [json |-> TRUE, shape |-> TRUE, importanceScore |-> 1000, spamScore |-> 0,
     category |-> "Financial", sentiment |-> "Urgent", actionItems |-> 7,
     urgentAction |-> TRUE, deadlines |-> "soon",
     extendedSummary |-> {"urgent"}, shortSummary |-> {"urgent"}],
    [json |-> TRUE, shape |-> TRUE, importanceScore |-> 500, spamScore |-> 1000,
     category |-> "", sentiment |-> "", actionItems |-> 0,
     urgentAction |-> FALSE, deadlines |-> "none",
     extendedSummary |-> {"urgent", "problem"}, shortSummary |-> {"hello"}],
    [json |-> TRUE, shape |-> TRUE, importanceScore |-> 1200, spamScore |-> 0,
     category |-> "Business", sentiment |-> "Neutral", actionItems |-> 0,
     urgentAction |-> FALSE, deadlines |-> "none",
     extendedSummary |-> {"hello"}, shortSummary |-> {"hello"}],
    [json |-> TRUE, shape |-> FALSE, importanceScore |-> 0, spamScore |-> 0,
     category |-> "", sentiment |-> "", actionItems |-> 0,
     urgentAction |-> FALSE, deadlines |-> "none",
     extendedSummary |-> {}, shortSummary |-> {}],
    [json |-> FALSE, shape |-> FALSE, importanceScore |-> 0, spamScore |-> 0,
     category |-> "", sentiment |-> "", actionItems |-> 0,
     urgentAction |-> FALSE, deadlines |-> "none",
     extendedSummary |-> {}, shortSummary |-> {}] }

\* the replies the store specification draws from: one that passes the
\* validation of enhancedSummarize and one for each way of failing it (no
\* JSON object, a field missing, a score out of range)
StoreReplies ==
  {r \in AIReplies : (r.importanceScore = 900) \/ ~r.json \/ ~r.shape
                        \/ r.importanceScore > One}

\* isValidResponse
isValidResponse(data) ==
  /\ data.shape
  /\ data.importanceScore >= 0
  /\ data.importanceScore <= One
  /\ data.spamScore >= 0
  /\ data.spamScore <= One

\* enhancedSummarize throws: no document, no JSON object, or an invalid shape
SummarizeThrows(email, reply) ==
  \/ ~email.exists
  \/ ~reply.json
  \/ ~isValidResponse(reply)

\* the object enhancedSummarize returns when it does not throw
enhancedSummarize(email, data) ==
  [email EXCEPT !.summarized = TRUE,
                !.autoSummary = data.extendedSummary,
                !.shortSummary = data.shortSummary,
                !.actionItems = data.actionItems,
                !.urgentAction = data.urgentAction,
                !.deadlines = data.deadlines,
                !.importanceScore = data.importanceScore,
                !.spamScore = data.spamScore,
                !.category = data.category,
                !.sentiment = data.sentiment]

(* ------------------------- advanced scoring --------------------------- *)
priorityLabelOf(p) ==
  IF p >= 800 THEN "Critical"
  ELSE IF p >= 600 THEN "High"
  ELSE IF p >= 400 THEN "Medium"
  ELSE IF p >= 200 THEN "Low"
  ELSE "Minimal"

\* the deletable score is left out of the combination
combinedPriority_NoDeletable(imp, urg, del) ==
  Min((7 * imp + 3 * urg) \div 10, One)

\* Math.max(Math.min(0.7*importance + 0.3*urgency - 0.5*deletable, 1.0), 0.0)
combinedPriority(imp, urg, del) ==
  LET n == 7 * imp + 3 * urg - 5 * del
  IN IF n < 0 THEN 0 ELSE Min(n \div 10, One)

DeletableCategories == {"promotional", "notification", "confirmation", "newsletter", "invoice"}
DeletableLabels == {"Promotional", "Notification", "Confirmation", "Newsletter"}

applyAdvancedScoring(email) ==
  LET urgActions == IF email.summarized /\ email.actionItems > 0
                    THEN Min(email.actionItems * 50, 300)
                         + (IF email.urgentAction THEN 100 ELSE 0)
                    ELSE 0
      urgDeadlines == IF email.summarized /\ email.deadlines # "none"
                      THEN 200 + (IF email.deadlines = "soon" THEN 300 ELSE 0)
                      ELSE 0
      imp1 == IF DomainOf(email.from) = DomainOf(To)
              THEN Min(email.importanceScore + 100, One)
              ELSE email.importanceScore
      sent == Lower(email.sentiment)
      urgSent == IF sent = "urgent" THEN 300 ELSE 0
      imp2 == IF sent = "urgent" THEN Min(imp1 + 200, One)
              ELSE IF sent = "negative" THEN Min(imp1 + 100, One)
              ELSE imp1
      delCat == IF email.category # "" /\ Lower(email.category) \in DeletableCategories
                THEN 300 ELSE 0
      delInv == IF Mentions(email, InvoiceWords) THEN 350 ELSE 0
      delLab == 150 * Cardinality({i \in 1..Len(email.labels) : email.labels[i] \in DeletableLabels})
      delSpam == IF email.spamScore > 0 THEN (email.spamScore * 4) \div 10 ELSE 0
      del == Min(delCat + delInv + delLab + delSpam, One)
      urg == Min(urgActions + urgDeadlines + urgSent, One)
      prio == combinedPriority(imp2, urg, del)
  IN [email EXCEPT !.scored = TRUE,
                   !.importanceScore = imp2,
                   !.deletableScore = del,
                   !.urgencyScore = urg,
                   !.priorityScore = prio,
                   !.priorityLabel = priorityLabelOf(prio)]

(* --------------------------- categorization --------------------------- *)
\* vocabulary words and senders matched by the remaining keyword lists of
\* categorizeEmail: none of the model's words contains a social, survey,
\* follow-up, confirmation, personal or response keyword, and no sender of
\* the model is a social network
SocialWords       == {}
SurveyWords       == {}
FollowupWords     == {}
ConfirmationWords == {}
PersonalWords     == {}
ResponseWords     == {}
SocialSenders       == {}
NotificationSenders == {"noreply@shop.com"}
PersonalDomains     == {"gmail.com"}

\* labels.push(label), and detectedCategories.add(label) when isCat
Push(st, label, isCat) ==
  [st EXCEPT !.labels = Append(@, label),
             !.detected = IF isCat /\ ~Includes(@, label) THEN Append(@, label) ELSE @]

PushIf(c, st, label, isCat) == IF c THEN Push(st, label, isCat) ELSE st

\* the "if (has...Content && !labels.includes(label))" steps
Detect(c, st, label) == PushIf(c /\ ~Includes(st.labels, label), st, label, TRUE)

categorizeEmail(email) ==
  LET s0 == [labels |-> email.labels, detected |-> <<>>, del |-> email.deletableScore]
      s1 == Detect(email.category # "", s0, email.category)
      s2 == Detect(Mentions(email, PromotionalWords)
                   \/ (email.spamScore > 300 /\ email.spamScore < 700), s1, "Promotional")
      s3 == Detect(Mentions(email, NewsletterWords), s2, "Newsletter")
      fin == Mentions(email, FinancialWords) /\ ~Includes(s3.labels, "Financial")
      s4a == PushIf(fin, s3, "Financial", TRUE)
      s4 == IF fin /\ Mentions(email, InvoiceWords)
            THEN [Push(s4a, "Invoice", FALSE) EXCEPT !.del = @ + 400]
            ELSE s4a
      act == email.summarized /\ email.actionItems > 0
      s5a == PushIf(act, s4, "Action Required", FALSE)
      s5 == PushIf(act /\ email.autoSummary \cap ResponseWords # {}, s5a,
                   "Response Needed", FALSE)
      s6 == PushIf((email.summarized /\ email.deadlines # "none")
                   \/ email.urgencyScore > 600, s5, "Time Sensitive", FALSE)
      s7 == Detect(Mentions(email, SocialWords) \/ email.from \in SocialSenders, s6, "Social")
      s8 == Detect(Mentions(email, EventWords), s7, "Event")
      s9 == Detect(Mentions(email, SurveyWords), s8, "Survey")
      s10 == Detect(Mentions(email, NotificationWords)
                    \/ email.from \in NotificationSenders, s9, "Notification")
      s11 == PushIf(Mentions(email, FollowupWords), s10, "Follow-up", FALSE)
      s12 == Detect(Mentions(email, ConfirmationWords), s11, "Confirmation")
      s13 == PushIf((Mentions(email, BusinessWords)
                     \/ DomainOf(email.from) \notin PersonalDomains)
                    /\ ~Includes(s12.labels, "Business")
                    /\ ~Includes(s12.detected, "Personal"), s12, "Business", TRUE)
      s14 == PushIf((Mentions(email, PersonalWords) \/ email.from \in Contacts)
                    /\ ~Includes(s13.labels, "Personal")
                    /\ ~Includes(s13.detected, "Business"), s13, "Personal", TRUE)
      s15 == PushIf(email.summarized /\ email.actionItems = 0 /\ s14.detected = <<>>,
                    s14, "Information", FALSE)
      s16 == PushIf(email.priorityLabel \in {"Critical", "High"}, s15, "Important", FALSE)
  IN [email EXCEPT !.labels = Dedup(s16.labels),
                   !.deletableScore = s16.del,
                   !.category = IF email.category = "" /\ s16.detected # <<>>
                                THEN s16.detected[1] ELSE email.category]

(* ------------------------ attachment processing ----------------------- *)
\* file names of the model and what typeMap makes of their extension
TypeOf(filename) ==
  CASE filename = "invoice.pdf" -> "document"
    [] filename = "setup.exe"   -> "executable"
    [] filename = "photo.png"   -> "image"
    [] OTHER                    -> "other"

\* file names that contain one of invoiceAttachmentKeywords
InvoiceFiles == {"invoice.pdf"}

RECURSIVE PushAll(_, _)
PushAll(labels, pairs) ==
  IF pairs = <<>> THEN labels
  ELSE PushAll(IF pairs[1][1] THEN Append(labels, pairs[1][2]) ELSE labels, Tail(pairs))

processAttachments(email) ==
  IF email.attachments = {} THEN email
  ELSE
    LET types == {TypeOf(f) : f \in email.attachments}
        inv == email.attachments \cap InvoiceFiles # {}
        exe == "executable" \in types
        biz == types \cap {"document", "spreadsheet", "presentation"} # {}
        labels == PushAll(email.labels,
                    << <<TRUE, "Has Attachments">>,
                       <<inv, "Invoice Attachment">>,
                       <<"document" \in types, "Has Documents">>,
                       <<"spreadsheet" \in types, "Has Spreadsheets">>,
                       <<"presentation" \in types, "Has Presentations">>,
                       <<exe, "Has Executables">> >>)
    IN [email EXCEPT !.attachmentTypes = types,
                     !.labels = Dedup(labels),
                     !.deletableScore = IF inv THEN @ + 300 ELSE @,
                     !.spamScore = IF exe THEN Min(@ + 200, One) ELSE @,
                     !.importanceScore = IF biz /\ @ < 700 THEN Min(@ + 150, 850) ELSE @]

(* -------------------------- sentiment / decay ------------------------- *)
\* 1000 * exp(-0.1 * d) for d = 1 .. 20 whole days past the third day
DecayTable ==
  << 905, 819, 741, 670, 607, 549, 497, 449, 407, 368,
     333, 301, 273, 247, 223, 202, 183, 165, 150, 135 >>

\* exp(+0.1 * d): the sign of the exponent dropped
decayFactorOf_Growing(ageInDays) == One + 100 * (ageInDays - 3)

decayFactorOf(ageInDays) == DecayTable[Min(ageInDays - 3, Len(DecayTable))]

\* occurrences of the words of a list in autoSummary + ' ' + shortSummary + ' ' + title
CountWords(email, words) ==
  Cardinality(email.autoSummary \cap words)
  + Cardinality(email.shortSummary \cap words)
  + Cardinality(email.title \cap words)

\* content.split(/\s+/).length: an empty first or last part leaves an empty token
ContentWordCount(email) ==
  Cardinality(email.autoSummary) + Cardinality(email.shortSummary)
  + Cardinality(email.title)
  + (IF email.autoSummary = {} THEN 1 ELSE 0) + (IF email.title = {} THEN 1 ELSE 0)

applySentimentAnalysis(email, now) ==
  IF email.sentiment # "" THEN email
  ELSE
    LET pos == CountWords(email, PositiveWords)
        neg == CountWords(email, NegativeWords)
        urgc == CountWords(email, UrgentWords)
        tone == IF urgc > Max(pos, neg) THEN "urgent"
                ELSE IF 2 * pos > 3 * neg THEN "positive"
                ELSE IF 2 * neg > 3 * pos THEN "negative"
                ELSE "neutral"
        high == 10 * (pos + neg + urgc) > ContentWordCount(email)
        urg == IF tone = "urgent"
               THEN Min(IF email.urgencyScore # 0 THEN email.urgencyScore + 200 ELSE 700, One)
               ELSE email.urgencyScore
        imp == IF tone = "urgent" \/ (tone = "negative" /\ high)
               THEN Min(email.importanceScore + 100, One)
               ELSE email.importanceScore
        ageInDays == now - email.date
        decays == ageInDays > 3
        factor == decayFactorOf(ageInDays)
        newPriority == (email.priorityScore * factor) \div One
        minPriority == (email.priorityScore * 3) \div 10
    IN [email EXCEPT !.tone = tone,
                     !.sentiment = tone,
                     !.urgencyScore = urg,
                     !.importanceScore = imp,
                     !.priorityScore = IF decays THEN Max(newPriority, minPriority) ELSE @,
                     !.decayFactor = IF decays THEN factor ELSE @,
                     !.decayApplied = IF decays THEN TRUE ELSE @]

(* ------------------------------- state -------------------------------- *)
VARIABLES
  index,    \* the user's index document (USER_COLLECTION, _cacheIdsKey)
  mail,     \* the message documents (MAIL_COLLECTION), by composite id
  remote,   \* per google account, the provider messages under the INBOX label
  last,     \* the last completed operation: its name, outcome and entry state
  pmsg,     \* the email object flowing through the five enrichment passes
  pprev,    \* the email object before the pass applied last
  pstage,   \* the pass applied last
  now,      \* the day new Date() falls on
  steps,    \* the number of steps taken so far
  proc,     \* per operation in flight: its position and its local variables
  archived, \* the ids archive removed since the inbox was last listed afresh
  rt,       \* an account id and a provider id on their way through composeId and decomposeId
  tIndex,   \* the index documents of several users, by user id
  tMail,    \* the message documents of several users, by document key
  tLast,    \* the last operation one of the users completed
  jobs,     \* the in-flight job counter of the fleet refresh handler
  reqs,     \* the fleet refresh requests: position and local variables of each
  run,      \* one supplySummaries run: the batch loop and the state of each queued email
  overlapped \* the ids an import appended while the supplySummaries run in progress was under way

raceVars == <<proc, archived>>
tenantVars == <<tIndex, tMail, tLast>>
fleetVars == <<jobs, reqs>>
auxVars == <<proc, archived, rt, tIndex, tMail, tLast, jobs, reqs, run, overlapped>>
vars == <<index, mail, remote, last, pmsg, pprev, pstage, now, steps,
          proc, archived, rt, tIndex, tMail, tLast, jobs, reqs, run, overlapped>>
storeVars == <<index, mail, remote, last>>
pipeVars == <<pmsg, pprev, pstage>>

\* firestore.read(USER_COLLECTION, key) || the empty index of importNewEmails
\* (exists = FALSE stands for null)
NoIndex ==
  [exists |-> FALSE, ids |-> <<>>, inbox |-> <<>>, deletables |-> <<>>,
   hasDeletables |-> TRUE, newMail |-> <<>>, summarizationQueue |-> <<>>]

NoOp ==
  [op |-> "none", ok |-> TRUE, err |-> "", id |-> <<>>, pre |-> NoIndex,
   listed |-> [a \in GoogleIds |-> {}], again |-> FALSE, wrote |-> {},
   indexWrites |-> 0, updated |-> FALSE, passed |-> {},
   aiCalls |-> 0, preMail |-> <<>>, attempted |-> {}, replies |-> <<>>,
   preRemote |-> <<>>, remoteKey |-> <<>>, remoteDone |-> FALSE]

\* getDeletables: cachedIds?.deletables || []
getDeletables(idx) == IF idx.exists /\ idx.hasDeletables THEN idx.deletables ELSE <<>>

\* MailCacheService.get
get(id) == IF id \in DOMAIN mail THEN mail[id] ELSE NoDoc

(* -------------------------- view maintenance -------------------------- *)
\* Array.prototype.sort with the comparator (a, b) => score(b) - score(a):
\* stable, descending. The element at position i moves behind every element
\* with a higher score and behind the earlier elements with the same score.
SortDesc_Unsorted(s, score) == s

SortDesc(s, score) ==
  LET before(i) == {j \in 1..Len(s) : (score[s[j]] > score[s[i]])
                                       \/ (score[s[j]] = score[s[i]] /\ j < i)}
  IN [k \in 1..Len(s) |-> s[CHOOSE i \in 1..Len(s) : Cardinality(before(i)) = k - 1]]

\* updateInbox rejects when a listed id has no document (email is null)
updateInboxThrows(cachedIds, docs) ==
  \E i \in 1..Len(cachedIds.inbox) : ~docs[cachedIds.inbox[i]].exists

\* the views are rebuilt and the inbox is put on the queue again
updateInbox_RequeuesInbox(cachedIds, docs) ==
  LET prio == [id \in Range(cachedIds.inbox) |-> docs[id].priorityScore]
      del == [id \in Range(cachedIds.inbox) |-> docs[id].deletableScore]
      emails == SortDesc(cachedIds.inbox, prio)
  IN [cachedIds EXCEPT !.exists = TRUE,
                       !.inbox = emails,
                       !.deletables = SortDesc(emails, del),
                       !.hasDeletables = TRUE,
                       !.summarizationQueue = emails]

\* only the inbox is sorted and written
updateInbox_InboxOnly(cachedIds, docs) ==
  LET prio == [id \in Range(cachedIds.inbox) |-> docs[id].priorityScore]
  IN [cachedIds EXCEPT !.exists = TRUE,
                       !.inbox = SortDesc(cachedIds.inbox, prio)]

\* the index document updateInbox writes
updateInbox(cachedIds, docs) ==
  LET prio == [id \in Range(cachedIds.inbox) |-> docs[id].priorityScore]
      del == [id \in Range(cachedIds.inbox) |-> docs[id].deletableScore]
      emails == SortDesc(cachedIds.inbox, prio)
  IN [cachedIds EXCEPT !.exists = TRUE,
                       !.inbox = emails,
                       !.deletables = SortDesc(emails, del),
                       !.hasDeletables = TRUE]

(* ------------------------------- import ------------------------------- *)
\* gmailClient.getIdsByLabel: newest first
RECURSIVE ListDesc(_)
ListDesc(S) ==
  IF S = {} THEN <<>>
  ELSE LET m == CHOOSE x \in S : \A y \in S : y <= x
       IN <<m>> \o ListDesc(S \ {m})

\* the listing of every message of the account, whatever its labels: the
\* messages under INBOX and those imported earlier
Listing_AnyLabel(acct) ==
  LET l == ListDesc(remote[acct] \cup
                    {i \in MidIdx : Includes(index.ids, composeId(acct, Mid(i)))})
  IN [i \in 1..Len(l) |-> composeId(acct, Mid(l[i]))]

\* the composite ids of one account's listing
Listing(acct) ==
  LET l == ListDesc(remote[acct])
  IN [i \in 1..Len(l) |-> composeId(acct, Mid(l[i]))]

\* every listed id counts as new: the ledger is not consulted
NewEmailIds_NoLedgerCheck(cachedIds, listing) == listing

\* newEmailIds: the listed ids that are not in cachedIds.ids
NewEmailIds(cachedIds, listing) ==
  SelectSeq(listing, LAMBDA id : ~Includes(cachedIds.ids, id))

\* inbox and newIds as the loop over the first n google accounts leaves them
RECURSIVE InboxUpTo(_)
InboxUpTo(n) ==
  IF n = 0 THEN <<>> ELSE InboxUpTo(n-1) \o Listing(GoogleAccounts[n].id)

RECURSIVE NewUpTo(_, _)
NewUpTo(cachedIds, n) ==
  IF n = 0 THEN <<>>
  ELSE NewUpTo(cachedIds, n-1) \o NewEmailIds(cachedIds, Listing(GoogleAccounts[n].id))

\* where an import can throw: at account acct, before its listing is there
\* (fetch = 0: no refresh token, or getIdsByLabel throws) or in gmailClient.get
\* for its fetch-th new message
FailPoints(cachedIds) ==
  UNION {{[acct |-> j, fetch |-> k] :
            k \in 0..Len(NewEmailIds(cachedIds, Listing(GoogleAccounts[j].id)))} :
         j \in 1..Len(GoogleAccounts)}

NoFail == [acct |-> 0, fetch |-> 0]

\* the new ids whose documents were written before the import threw at f
WrittenBefore(cachedIds, f) ==
  LET mine == NewEmailIds(cachedIds, Listing(GoogleAccounts[f.acct].id))
  IN NewUpTo(cachedIds, f.acct - 1) \o SubSeq(mine, 1, f.fetch - 1)

\* the index written without the new ids in the ledger
ImportedIndex_LedgerNotExtended(cachedIds, inbox, newIds) ==
  [exists |-> TRUE,
   ids |-> cachedIds.ids,
   inbox |-> inbox,
   deletables |-> <<>>,
   hasDeletables |-> FALSE,
   newMail |-> cachedIds.newMail \o newIds,
   summarizationQueue |-> cachedIds.summarizationQueue \o newIds]

\* the index written with the queue replaced by the new ids
ImportedIndex_QueueReplaced(cachedIds, inbox, newIds) ==
  [exists |-> TRUE,
   ids |-> cachedIds.ids \o newIds,
   inbox |-> inbox,
   deletables |-> <<>>,
   hasDeletables |-> FALSE,
   newMail |-> cachedIds.newMail \o newIds,
   summarizationQueue |-> newIds]

\* the index document importNewEmails writes (no deletables field)
ImportedIndex(cachedIds, inbox, newIds) ==
  [exists |-> TRUE,
   ids |-> cachedIds.ids \o newIds,
   inbox |-> inbox,
   deletables |-> <<>>,
   hasDeletables |-> FALSE,
   newMail |-> cachedIds.newMail \o newIds,
   summarizationQueue |-> cachedIds.summarizationQueue \o newIds]

\* the index is written whether or not the loop threw
importWritesIndex_Always(f) == TRUE

\* the firestore.write of the index is reached when nothing before it threw
importWritesIndex(f) == f = NoFail

importNewEmails(f) ==
  LET cachedIds == IF index.exists THEN index ELSE NoIndex
      n == Len(GoogleAccounts)
      fails == f # NoFail
      written == IF fails THEN WrittenBefore(cachedIds, f) ELSE NewUpTo(cachedIds, n)
      again == last.op = "importNewEmails" /\ last.ok /\ last.listed = remote
  IN /\ f = NoFail \/ f \in FailPoints(cachedIds)
     /\ \A j \in 1..n : ~GoogleAccounts[j].token => (fails /\ f.acct <= j)
     /\ fails => \A j \in 1..(f.acct - 1) : GoogleAccounts[j].token
     /\ IF n = 0
        THEN /\ UNCHANGED <<index, mail>>
             /\ last' = [NoOp EXCEPT !.op = "importNewEmails", !.pre = index,
                                     !.listed = remote, !.again = again]
        ELSE /\ mail' = [id \in DOMAIN mail |->
                           IF Includes(written, id) THEN ImportedDoc(id) ELSE mail[id]]
             /\ index' = IF importWritesIndex(f)
                         THEN ImportedIndex(cachedIds, InboxUpTo(n), written)
                         ELSE index
             /\ last' = [NoOp EXCEPT !.op = "importNewEmails", !.ok = ~fails,
                                     !.err = IF fails THEN "import failed" ELSE "",
                                     !.pre = index, !.listed = remote, !.again = again,
                                     !.wrote = Range(written),
                                     !.indexWrites = IF fails THEN 0 ELSE 1]
     /\ UNCHANGED <<remote, pmsg, pprev, pstage, now>>

(* ----------------------------- enrichment ----------------------------- *)
\* supplySummaries pushes every enriched email onto processedEmails before it
\* deletes the id from remainingIdsSet; no declaration of processedEmails is
\* in scope, so the push throws a ReferenceError inside the try block
processedEmailsDeclared == FALSE

\* batchIds of the k-th round of the batch loop (k = 0, 1, ...)
BatchIds(queue, k) ==
  SubSeq(queue, k * BATCH_SIZE + 1, Min((k + 1) * BATCH_SIZE, Len(queue)))

NumBatches(queue) == (Len(queue) + BATCH_SIZE - 1) \div BATCH_SIZE

\* the five passes of one email run to the end without throwing
PassesComplete(email, reply) == ~SummarizeThrows(email, reply)

\* the value of sentimentAnalyzed when the passes complete
Enrich(email, reply, today) ==
  applySentimentAnalysis(
    processAttachments(categorizeEmail(applyAdvancedScoring(enhancedSummarize(email, reply)))),
    today)

\* every attempted id is deleted from remainingIdsSet, failed or not
Removed_AllAttempted(queue, replies) == Range(queue)

\* the ids remainingIdsSet.delete is reached for
Removed(queue, replies) ==
  UNION {{BatchIds(queue, k)[i] : i \in {j \in 1..Len(BatchIds(queue, k)) :
                                          /\ PassesComplete(get(BatchIds(queue, k)[j]),
                                                            replies[BatchIds(queue, k)[j]])
                                          /\ processedEmailsDeclared}} :
         k \in 0..(NumBatches(queue) - 1)}

\* the round of the batch loop that rejects: the first one with a queued id
\* that has no document (the catch block reads email._id of null); the last
\* round when there is none
FirstNullBatch(queue) ==
  LET bad == {k \in 0..(NumBatches(queue) - 1) :
                \E i \in 1..Len(BatchIds(queue, k)) : ~get(BatchIds(queue, k)[i]).exists}
  IN IF bad = {} THEN NumBatches(queue) - 1
     ELSE CHOOSE k \in bad : \A j \in bad : k <= j

\* the queued ids enhancedSummarize was called for
Attempted(queue) ==
  UNION {Range(BatchIds(queue, k)) : k \in 0..FirstNullBatch(queue)}

supplySummaries(replies) ==
  LET cachedIds == index
      queue == cachedIds.summarizationQueue
      \* a queued id without a document: email._id in the catch block throws
      nullEmail == \E i \in 1..Len(queue) : ~get(queue[i]).exists
      passed == {id \in Range(queue) : PassesComplete(get(id), replies[id])}
  IN /\ replies \in [Range(queue) -> AIReplies]
     /\ IF ~cachedIds.exists \/ queue = <<>>
        THEN /\ UNCHANGED index
             /\ last' = [NoOp EXCEPT !.op = "supplySummaries", !.pre = index]
        ELSE \E remaining \in {SelectSeq(Dedup(queue),
                                          LAMBDA id : id \notin Removed(queue, replies))} :
               LET arg == [cachedIds EXCEPT !.summarizationQueue = remaining]
                   throws == nullEmail \/ updateInboxThrows(arg, mail)
               IN /\ index' = IF throws THEN index ELSE updateInbox(arg, mail)
                  /\ last' = [NoOp EXCEPT !.op = "supplySummaries", !.ok = ~throws,
                                          !.err = IF throws THEN "TypeError" ELSE "",
                                          !.pre = index,
                                          !.passed = IF nullEmail THEN {} ELSE passed,
                                          !.aiCalls = Cardinality({i \in 1..Len(queue) :
                                                                     /\ queue[i] \in Attempted(queue)
                                                                     /\ get(queue[i]).exists}),
                                          !.attempted = Attempted(queue),
                                          !.preMail = mail,
                                          !.replies = replies,
                                          !.updated = ~throws,
                                          !.indexWrites = IF throws THEN 0 ELSE 1]
     /\ UNCHANGED <<mail, remote, pmsg, pprev, pstage, now>>

(* ------------------------------ rescore ------------------------------- *)
rescore ==
  LET cachedIds == index
      inbox == cachedIds.inbox
      throws == updateInboxThrows(cachedIds, mail)
      rescored == [id \in DOMAIN mail |->
                     IF Includes(inbox, id) /\ mail[id].exists
                     THEN applyAdvancedScoring(mail[id]) ELSE mail[id]]
  IN /\ IF ~cachedIds.exists \/ inbox = <<>>
        THEN /\ UNCHANGED <<index, mail>>
             /\ last' = [NoOp EXCEPT !.op = "rescore", !.pre = index]
        ELSE /\ mail' = rescored
             /\ index' = IF throws THEN index ELSE updateInbox(cachedIds, rescored)
             /\ last' = [NoOp EXCEPT !.op = "rescore", !.ok = ~throws,
                                     !.err = IF throws THEN "TypeError" ELSE "",
                                     !.pre = index,
                                     !.wrote = {id \in Range(inbox) : mail[id].exists},
                                     !.preMail = mail,
                                     !.again = (last.op = "rescore" /\ last.updated),
                                     !.updated = ~throws,
                                     !.indexWrites = IF throws THEN 0 ELSE 1]
     /\ UNCHANGED <<remote, pmsg, pprev, pstage, now>>

(* ------------------------------ archive ------------------------------- *)
\* archive without the check that the id is in the inbox
archiveError_NoInboxCheck(cachedIds, id) ==
  IF ~cachedIds.exists THEN "Inbox not found" ELSE ""

\* the error archive throws before it changes anything ("" for none)
archiveError(cachedIds, id) ==
  IF ~cachedIds.exists THEN "Inbox not found"
  ELSE IF IndexOf(cachedIds.inbox, id) = 0 THEN "Email not found in inbox"
  ELSE ""

\* splice at the wrong position: the last element goes
removeAt_Last(s, i) == SubSeq(s, 1, Len(s) - 1)

\* cachedIds.inbox.splice(inboxIndex, 1) and cachedIds.deletables.splice(deletablesIndex, 1)
removeAt(s, i) == Splice(s, i)

\* the index document archive writes
archivedIndex(cachedIds, id) ==
  LET inboxIndex == IndexOf(cachedIds.inbox, id)
      deletablesIndex == IF cachedIds.hasDeletables THEN IndexOf(cachedIds.deletables, id) ELSE 0
  IN [cachedIds EXCEPT !.inbox = removeAt(@, inboxIndex),
                       !.deletables = IF deletablesIndex # 0
                                      THEN removeAt(@, deletablesIndex) ELSE @]

archive(id) ==
  LET cachedIds == index
      err == archiveError(cachedIds, id)
  IN /\ index' = IF err # "" THEN index ELSE archivedIndex(cachedIds, id)
     /\ last' = [NoOp EXCEPT !.op = "archive", !.ok = (err = ""), !.err = err,
                             !.id = id, !.pre = index,
                             !.indexWrites = IF err = "" THEN 1 ELSE 0]
     /\ UNCHANGED <<mail, remote, pmsg, pprev, pstage, now>>

(* ----------------------- resetSummarizationQueue ---------------------- *)
resetSummarizationQueue ==
  LET cachedIds == index
  IN /\ IF ~cachedIds.exists \/ cachedIds.inbox = <<>>
        THEN /\ UNCHANGED index
             /\ last' = [NoOp EXCEPT !.op = "resetSummarizationQueue", !.pre = index]
        ELSE /\ index' = [cachedIds EXCEPT !.summarizationQueue = cachedIds.inbox]
             /\ last' = [NoOp EXCEPT !.op = "resetSummarizationQueue", !.pre = index,
                                     !.indexWrites = 1]
     /\ UNCHANGED <<mail, remote, pmsg, pprev, pstage, now>>

(* ------------------- MailService: archive, trash, junk ---------------- *)
\* the ids the mutating actions are called with: the ids of the mailbox and
\* one of an account that has no Gmail client
ServiceIds == AllIds \cup {composeId(<<"s">>, Mid(1))}

\* the cache is updated whether or not the provider call went through
cacheReached_BeforeRemote(hasClient, remoteOk) == hasClient

\* this._cache.archive(id) is reached: a client was found and the awaited
\* provider call did not throw
cacheReached(hasClient, remoteOk) == hasClient /\ remoteOk

\* the common body of moveToTrash, moveToJunk and archive of MailService; the
\* provider call of each takes the message out of the INBOX label
mailAction(op, id, remoteOk) ==
  LET d == decomposeId(id)
      hasClient == d.accountId \in GoogleIds
      cachedIds == index
      cacheErr == archiveError(cachedIds, id)
      touches == cacheReached(hasClient, remoteOk) /\ cacheErr = ""
      err == IF ~hasClient THEN "Account not found"
             ELSE IF ~remoteOk THEN "remote failed"
             ELSE cacheErr
  IN /\ remote' = IF hasClient /\ remoteOk
                  THEN [remote EXCEPT ![d.accountId] = @ \ {MidOf(id)}]
                  ELSE remote
     /\ index' = IF touches THEN archivedIndex(cachedIds, id) ELSE index
     /\ last' = [NoOp EXCEPT !.op = op, !.ok = (err = ""), !.err = err, !.id = id,
                             !.pre = index, !.preRemote = remote,
                             !.remoteKey = IF hasClient THEN d.providerId ELSE <<>>,
                             !.remoteDone = hasClient /\ remoteOk,
                             !.indexWrites = IF touches THEN 1 ELSE 0]
     /\ UNCHANGED <<mail, pmsg, pprev, pstage, now>>

moveToTrash(id, remoteOk) == mailAction("moveToTrash", id, remoteOk)

moveToJunk(id, remoteOk) == mailAction("moveToJunk", id, remoteOk)

MailService_archive(id, remoteOk) == mailAction("MailService.archive", id, remoteOk)

(* ------------------------------- delete ------------------------------- *)
\* MailCacheService.delete: the message document goes, the index is not read
delete(id) ==
  /\ mail' = [mail EXCEPT ![id] = NoDoc]
  /\ last' = [NoOp EXCEPT !.op = "delete", !.id = id, !.pre = index, !.preMail = mail]
  /\ UNCHANGED <<index, remote, pmsg, pprev, pstage, now>>

(* ----------------------------- the mailbox ---------------------------- *)
\* a message gets the INBOX label at the provider
Arrive(acct, i) ==
  /\ i \notin remote[acct]
  /\ remote' = [remote EXCEPT ![acct] = @ \cup {i}]
  /\ UNCHANGED <<index, mail, last, pmsg, pprev, pstage, now>>

\* a message loses the INBOX label at the provider
Leave(acct, i) ==
  /\ i \in remote[acct]
  /\ remote' = [remote EXCEPT ![acct] = @ \ {i}]
  /\ UNCHANGED <<index, mail, last, pmsg, pprev, pstage, now>>

(* ------------- operations interleaved at the store calls -------------- *)
\* The operations of one user run as separate requests. Each await of a store
\* call (firestore.read, firestore.write, firestore.update) is a point where
\* another request's store call can fall in between; cachedIds is the local
\* copy the operation took with its firestore.read.
Ops == {"importNewEmails", "rescore", "archive"}

IdleProc == [pc |-> "idle", cachedIds |-> NoIndex, id |-> <<>>, inbox |-> <<>>, newIds |-> <<>>]

\* importNewEmails up to its firestore.read of the index
ImportRead ==
  /\ proc["importNewEmails"].pc = "idle"
  /\ Len(GoogleAccounts) > 0
  /\ \A j \in 1..Len(GoogleAccounts) : GoogleAccounts[j].token
  /\ proc' = [proc EXCEPT !["importNewEmails"] =
                [IdleProc EXCEPT !.pc = "fetch",
                                 !.cachedIds = IF index.exists THEN index ELSE NoIndex]]
  /\ UNCHANGED <<index, mail, remote, archived>>

\* the loop over the accounts: the listings, and a document for every new id
ImportFetch ==
  LET me == proc["importNewEmails"]
      newIds == NewUpTo(me.cachedIds, Len(GoogleAccounts))
  IN /\ me.pc = "fetch"
     /\ mail' = [id \in DOMAIN mail |->
                   IF Includes(newIds, id) THEN ImportedDoc(id) ELSE mail[id]]
     /\ proc' = [proc EXCEPT !["importNewEmails"] =
                   [me EXCEPT !.pc = "write",
                              !.inbox = InboxUpTo(Len(GoogleAccounts)),
                              !.newIds = newIds]]
     /\ UNCHANGED <<index, remote, archived>>

\* the firestore.write of the index that ends importNewEmails
ImportWrite ==
  LET me == proc["importNewEmails"]
  IN /\ me.pc = "write"
     /\ index' = ImportedIndex(me.cachedIds, me.inbox, me.newIds)
     /\ archived' = {}
     /\ proc' = [proc EXCEPT !["importNewEmails"] = IdleProc]
     /\ UNCHANGED <<mail, remote>>

\* rescore up to its firestore.read of the index
RescoreRead ==
  /\ proc["rescore"].pc = "idle"
  /\ index.exists
  /\ index.inbox # <<>>
  /\ proc' = [proc EXCEPT !["rescore"] =
                [IdleProc EXCEPT !.pc = "score", !.cachedIds = index]]
  /\ UNCHANGED <<index, mail, remote, archived>>

\* the inbox emails are read, rescored and written back with firestore.update
RescoreScore ==
  LET me == proc["rescore"]
  IN /\ me.pc = "score"
     /\ mail' = [id \in DOMAIN mail |->
                   IF Includes(me.cachedIds.inbox, id) /\ mail[id].exists
                   THEN applyAdvancedScoring(mail[id]) ELSE mail[id]]
     /\ proc' = [proc EXCEPT !["rescore"] = [me EXCEPT !.pc = "write"]]
     /\ UNCHANGED <<index, remote, archived>>

\* updateInbox(cachedIds) with the copy rescore read at its start
RescoreWrite ==
  LET me == proc["rescore"]
  IN /\ me.pc = "write"
     /\ index' = IF updateInboxThrows(me.cachedIds, mail) THEN index
                 ELSE updateInbox(me.cachedIds, mail)
     /\ proc' = [proc EXCEPT !["rescore"] = IdleProc]
     /\ UNCHANGED <<mail, remote, archived>>

\* archive(id) up to its firestore.read of the index; it goes on when it
\* does not throw
ArchiveRead(id) ==
  /\ proc["archive"].pc = "idle"
  /\ archiveError(index, id) = ""
  /\ proc' = [proc EXCEPT !["archive"] =
                [IdleProc EXCEPT !.pc = "write", !.cachedIds = index, !.id = id]]
  /\ UNCHANGED <<index, mail, remote, archived>>

\* the firestore.write that ends archive(id)
ArchiveWrite ==
  LET me == proc["archive"]
  IN /\ me.pc = "write"
     /\ index' = archivedIndex(me.cachedIds, me.id)
     /\ archived' = archived \cup {me.id}
     /\ proc' = [proc EXCEPT !["archive"] = IdleProc]
     /\ UNCHANGED <<mail, remote>>

\* supplySummaries up to its firestore.read of the index; it goes on when
\* there is a queue
SupplyRead ==
  /\ proc["supplySummaries"].pc = "idle"
  /\ index.exists
  /\ index.summarizationQueue # <<>>
  /\ proc' = [proc EXCEPT !["supplySummaries"] =
                [IdleProc EXCEPT !.pc = "write", !.cachedIds = index]]
  /\ UNCHANGED <<index, mail, remote, archived>>

\* the batch loop and the updateInbox that ends supplySummaries, with the
\* copy of the index read at its start
SupplyWrite(replies) ==
  LET me == proc["supplySummaries"]
      queue == me.cachedIds.summarizationQueue
      nullEmail == \E i \in 1..Len(queue) : ~get(queue[i]).exists
      remaining == SelectSeq(Dedup(queue), LAMBDA id : id \notin Removed(queue, replies))
      arg == [me.cachedIds EXCEPT !.summarizationQueue = remaining]
  IN /\ me.pc = "write"
     /\ replies \in [Range(queue) -> AIReplies]
     /\ index' = IF nullEmail \/ updateInboxThrows(arg, mail) THEN index
                 ELSE updateInbox(arg, mail)
     /\ proc' = [proc EXCEPT !["supplySummaries"] = IdleProc]
     /\ UNCHANGED <<mail, remote, archived>>

\* a message gets the INBOX label while the operations run
RaceArrive(acct, i) ==
  /\ i \notin remote[acct]
  /\ remote' = [remote EXCEPT ![acct] = @ \cup {i}]
  /\ UNCHANGED <<index, mail, proc, archived>>

(* -------------------- composeId and decomposeId ----------------------- *)
\* the account ids and provider ids tried: strings over IdChars
IdChars == {"a", "7", "#"}

IdStrings == UNION {[1..n -> IdChars] : n \in 0..MaxIdLen}

RtCompose ==
  /\ rt.stage = "input"
  /\ rt' = [rt EXCEPT !.stage = "composed", !.id = composeId(rt.accountId, rt.providerId)]

RtDecompose ==
  /\ rt.stage = "composed"
  /\ rt' = [rt EXCEPT !.stage = "decomposed", !.out = decomposeId(rt.id)]

(* --------------------------- several users --------------------------- *)
\* user ids are UUIDs (system.mkUUID); composeId keeps their first 8
\* characters. Two of the users here agree on those, the third does not.
TenantUsers ==
  { UserId,
    <<"u", "s", "r", "-", "0", "0", "0", "1", "b">>,
    <<"u", "s", "r", "-", "0", "0", "0", "2", "c">> }

\* the google account a user linked, and the messages under its INBOX label
TenantAccount(u) == GoogleAccounts[1].id

\* this._cacheIdsKey
cacheIdsKey(u) ==
  <<"u", "s", "e", "r", "#">> \o u \o <<"#", "c", "a", "c", "h", "e", "d", "-", "i", "d", "s">>

TenantListing(u) ==
  LET l == ListDesc(MidIdx)
  IN [i \in 1..Len(l) |-> composeIdFor(u, TenantAccount(u), Mid(l[i]))]

TenantKeys == UNION {Range(TenantListing(u)) : u \in TenantUsers}

NoTenantDoc == [doc |-> NoDoc, userId |-> <<>>]

\* importNewEmails of the cache instance of user u
TImport(u) ==
  LET key == cacheIdsKey(u)
      cachedIds == IF tIndex[key].exists THEN tIndex[key] ELSE NoIndex
      listing == TenantListing(u)
      newIds == NewEmailIds(cachedIds, listing)
  IN /\ tMail' = [k \in DOMAIN tMail |->
                    IF Includes(newIds, k) THEN [doc |-> ImportedDoc(k), userId |-> u]
                    ELSE tMail[k]]
     /\ tIndex' = [tIndex EXCEPT ![key] = ImportedIndex(cachedIds, listing, newIds)]
     /\ tLast' = [op |-> "importNewEmails", user |-> u, preMail |-> tMail, preIndex |-> tIndex]

\* rescore of the cache instance of user u
TRescore(u) ==
  LET key == cacheIdsKey(u)
      cachedIds == tIndex[key]
      rescored == [k \in DOMAIN tMail |->
                     IF Includes(cachedIds.inbox, k) /\ tMail[k].doc.exists
                     THEN [tMail[k] EXCEPT !.doc = applyAdvancedScoring(@)]
                     ELSE tMail[k]]
  IN /\ cachedIds.exists
     /\ cachedIds.inbox # <<>>
     /\ tMail' = rescored
     /\ tIndex' = [tIndex EXCEPT ![key] =
                     updateInbox(cachedIds, [k \in DOMAIN tMail |-> rescored[k].doc])]
     /\ tLast' = [op |-> "rescore", user |-> u, preMail |-> tMail, preIndex |-> tIndex]

\* archive(id) of the cache instance of user u
TArchive(u, id) ==
  LET key == cacheIdsKey(u)
      cachedIds == tIndex[key]
  IN /\ archiveError(cachedIds, id) = ""
     /\ tIndex' = [tIndex EXCEPT ![key] = archivedIndex(cachedIds, id)]
     /\ tLast' = [op |-> "archive", user |-> u, preMail |-> tMail, preIndex |-> tIndex]
     /\ UNCHANGED tMail

(* ----------------------- fleet refresh handler ------------------------ *)
\* system-handler.js refreshCache: jobs counts the per-user refresh tasks in
\* flight; every access runs under jobsMutex
ReqIds == 1..NumReqs

NewReq == [pc |-> "new", seen |-> 0, launched |-> 0, running |-> 0]

\* the counter never read as positive
isInProgress_Never(n) == FALSE

\* jobsMutex.runExclusive(() => jobs > 0)
isInProgress(n) == n > 0

\* the request reads the counter and answers
FleetCheck(r) ==
  /\ reqs[r].pc = "new"
  /\ reqs' = [reqs EXCEPT ![r] =
                [@ EXCEPT !.seen = jobs,
                          !.pc = IF isInProgress(jobs) THEN "rejected" ELSE "getUsers"]]
  /\ UNCHANGED jobs

\* userService.getUsers() resolves, or rejects and the error is logged
FleetGetUsers(r, ok) ==
  /\ reqs[r].pc = "getUsers"
  /\ reqs' = [reqs EXCEPT ![r] = [@ EXCEPT !.pc = IF ok THEN "launch" ELSE "failed"]]
  /\ UNCHANGED jobs

\* jobs += userIds.length, and one cacheService.refreshCache per user
FleetLaunch(r) ==
  /\ reqs[r].pc = "launch"
  /\ jobs' = jobs + NumUsers
  /\ reqs' = [reqs EXCEPT ![r] =
                [@ EXCEPT !.pc = "launched", !.launched = NumUsers, !.running = NumUsers]]

\* one per-user refresh settles (resolved or rejected): jobs -= 1
FleetTaskEnd(r) ==
  /\ reqs[r].running > 0
  /\ jobs' = jobs - 1
  /\ reqs' = [reqs EXCEPT ![r] = [@ EXCEPT !.running = @ - 1]]

(* ------------------- the batch loop of one run ----------------------- *)
\* Each queued email of a run is at one of these points:
\*   "queued"    its batch has not begun
\*   "started"   enhancedSummarize was called and waits for the AI driver
\*   "inflight"  aiDriver.converse was called and has not returned
\*   "done"      the passes completed
\*   "failed"    a pass threw and the catch block logged it
\*   "rejected"  the email is null and the catch block threw on email._id
\* the positions of the queue that make up round k of the loop (k = 0, 1, ...)
BatchOf(k, len) == {i \in 1..len : (i - 1) \div BATCH_SIZE = k}

Settled == {"done", "failed", "rejected"}

\* the loop goes on as soon as one email of the batch has settled
batchSettled_AnySettled(st, k) ==
  \E i \in BatchOf(k, Len(st)) : st[i] \in Settled

\* await Promise.all(emails.map(...)) of round k resolves
batchSettled(st, k) ==
  \A i \in BatchOf(k, Len(st)) : st[i] \in Settled

\* a round begins: the documents are read and every callback runs up to its
\* first await; a null email rejects the Promise.all of the round
BatchStart ==
  /\ run.stage = "loop"
  /\ run.k * BATCH_SIZE < Len(run.st)
  /\ LET batch == BatchOf(run.k, Len(run.st))
     IN run' = [run EXCEPT
                  !.st = [i \in 1..Len(run.st) |->
                            IF i \in batch
                            THEN (IF run.hasDoc[i] THEN "started" ELSE "rejected")
                            ELSE run.st[i]],
                  !.stage = IF \E i \in batch : ~run.hasDoc[i] THEN "rejected" ELSE "batch"]

\* aiDriver.converse(prompt) is called for one email
AiCall(i) ==
  /\ run.st[i] = "started"
  /\ run' = [run EXCEPT !.st[i] = "inflight"]

\* the call returns and the rest of the passes runs, or something throws
AiReturn(i, ok) ==
  /\ run.st[i] = "inflight"
  /\ run' = [run EXCEPT !.st[i] = IF ok THEN "done" ELSE "failed"]

\* the await of the round resolves and the loop counter moves on
BatchEnd ==
  /\ run.stage = "batch"
  /\ batchSettled(run.st, run.k)
  /\ run' = [run EXCEPT !.k = @ + 1,
                        !.stage = IF (run.k + 1) * BATCH_SIZE < Len(run.st)
                                  THEN "loop" ELSE "updateInbox"]

(* ---------------------- the passes, one by one ----------------------- *)
\* the email objects the passes are applied to: the documents import writes,
\* as they are and after a rescore, with the attachment lists of the model
AttachmentLists == {{}, {"invoice.pdf"}, {"setup.exe", "photo.png"}}

PipeIds == {composeId(a, <<MidChars[i]>>) : a \in GoogleIds, i \in DOMAIN ContentTable}

PipeInputs ==
  LET docs == {[ImportedDoc(id) EXCEPT !.attachments = att] :
                 id \in PipeIds, att \in AttachmentLists}
  IN docs \cup {applyAdvancedScoring(d) : d \in docs}

Days == {20, 30}

\* pass a: enhancedSummarize, with the reply of the AI
PassSummarize(reply) ==
  /\ pstage = "stored"
  /\ pprev' = pmsg
  /\ IF SummarizeThrows(pmsg, reply)
     THEN pmsg' = pmsg /\ pstage' = "failed"
     ELSE pmsg' = enhancedSummarize(pmsg, reply) /\ pstage' = "summarized"
  /\ UNCHANGED <<index, mail, remote, last, now, steps>>
  /\ UNCHANGED auxVars

\* pass b
PassScore ==
  /\ pstage = "summarized"
  /\ pprev' = pmsg
  /\ pmsg' = applyAdvancedScoring(pmsg)
  /\ pstage' = "scored"
  /\ UNCHANGED <<index, mail, remote, last, now, steps>>
  /\ UNCHANGED auxVars

\* pass c
PassCategorize ==
  /\ pstage = "scored"
  /\ pprev' = pmsg
  /\ pmsg' = categorizeEmail(pmsg)
  /\ pstage' = "categorized"
  /\ UNCHANGED <<index, mail, remote, last, now, steps>>
  /\ UNCHANGED auxVars

\* pass d
PassAttachments ==
  /\ pstage = "categorized"
  /\ pprev' = pmsg
  /\ pmsg' = processAttachments(pmsg)
  /\ pstage' = "attachmentTagged"
  /\ UNCHANGED <<index, mail, remote, last, now, steps>>
  /\ UNCHANGED auxVars

\* pass e
PassSentiment ==
  /\ pstage = "attachmentTagged"
  /\ pprev' = pmsg
  /\ pmsg' = applySentimentAnalysis(pmsg, now)
  /\ pstage' = "sentimentAnalyzed"
  /\ UNCHANGED <<index, mail, remote, last, now, steps>>
  /\ UNCHANGED auxVars

(* --------------------------- specifications --------------------------- *)
\* the parts of the state a specification leaves alone
PipeIdle ==
  /\ pmsg = NoDoc
  /\ pprev = NoDoc
  /\ pstage = "idle"
  /\ now = 20

RaceIdle ==
  /\ proc = <<>>
  /\ archived = {}
  /\ overlapped = {}

RtIdle == rt = <<>>

TenantIdle ==
  /\ tIndex = <<>>
  /\ tMail = <<>>
  /\ tLast = <<>>

FleetIdle ==
  /\ jobs = 0
  /\ reqs = <<>>

RunIdle == run = <<>>

StoreInit ==
  /\ index = NoIndex
  /\ mail = [id \in AllIds |-> NoDoc]
  /\ remote = [a \in GoogleIds |-> {}]
  /\ last = NoOp
  /\ steps = 0

Init ==
  /\ StoreInit
  /\ PipeIdle
  /\ RaceIdle
  /\ RtIdle
  /\ TenantIdle
  /\ FleetIdle
  /\ RunIdle

\* one counted step of the store specification
Step(A) ==
  /\ steps < MaxSteps
  /\ steps' = steps + 1
  /\ A
  /\ UNCHANGED auxVars

Next ==
  \/ \E a \in GoogleIds, i \in MidIdx : Step(Arrive(a, i))
  \/ \E a \in GoogleIds, i \in MidIdx : Step(Leave(a, i))
  \/ \E f \in {NoFail} \cup FailPoints(IF index.exists THEN index ELSE NoIndex) :
       Step(importNewEmails(f))
  \/ \E replies \in [Range(index.summarizationQueue) -> StoreReplies] :
       Step(supplySummaries(replies))
  \/ Step(rescore)
  \/ \E id \in AllIds : Step(archive(id))
  \/ Step(resetSummarizationQueue)

Spec == Init /\ [][Next]_vars

\* the five passes applied to one email object
PipeInit ==
  /\ StoreInit
  /\ pmsg \in PipeInputs
  /\ pprev = NoDoc
  /\ pstage = "stored"
  /\ now \in Days
  /\ RaceIdle
  /\ RtIdle
  /\ TenantIdle
  /\ FleetIdle
  /\ RunIdle

PipeNext ==
  \/ \E reply \in AIReplies : PassSummarize(reply)
  \/ PassScore
  \/ PassCategorize
  \/ PassAttachments
  \/ PassSentiment

PipeSpec == PipeInit /\ [][PipeNext]_vars

\* enrichment on its own: mail comes and goes, is imported, and the queue is
\* processed again and again; an invocation in which the AI answers every
\* queued message with a valid reply is not postponed forever
Free(A) == A /\ UNCHANGED steps /\ UNCHANGED auxVars

ValidReplies == {r \in StoreReplies : r.json /\ isValidResponse(r)}

SupplyAllValid ==
  \E replies \in [Range(index.summarizationQueue) -> ValidReplies] :
    Free(supplySummaries(replies))

LiveNext ==
  \/ \E a \in GoogleIds, i \in MidIdx : Free(Arrive(a, i))
  \/ \E a \in GoogleIds, i \in MidIdx : Free(Leave(a, i))
  \/ Free(importNewEmails(NoFail))
  \/ \E replies \in [Range(index.summarizationQueue) -> StoreReplies] :
       Free(supplySummaries(replies))

LiveSpec == Init /\ [][LiveNext]_vars /\ WF_vars(SupplyAllValid)

\* the mutating actions of MailService over the mail cache
ServiceNext ==
  \/ \E a \in GoogleIds, i \in MidIdx : Step(Arrive(a, i))
  \/ Step(importNewEmails(NoFail))
  \/ \E replies \in [Range(index.summarizationQueue) -> ValidReplies] :
       Step(supplySummaries(replies))
  \/ \E id \in ServiceIds, ok \in BOOLEAN : Step(moveToTrash(id, ok))
  \/ \E id \in ServiceIds, ok \in BOOLEAN : Step(moveToJunk(id, ok))
  \/ \E id \in ServiceIds, ok \in BOOLEAN : Step(MailService_archive(id, ok))

ServiceSpec == Init /\ [][ServiceNext]_vars

\* the store operations together with delete of a message document
PurgeNext ==
  \/ \E a \in GoogleIds, i \in MidIdx : Step(Arrive(a, i))
  \/ Step(importNewEmails(NoFail))
  \/ \E id \in AllIds : Step(delete(id))
  \/ \E replies \in [Range(index.summarizationQueue) -> StoreReplies] :
       Step(supplySummaries(replies))
  \/ Step(rescore)

PurgeSpec == Init /\ [][PurgeNext]_vars

\* one run of supplySummaries over a queue, at most one id without a document
RunInit ==
  /\ StoreInit
  /\ PipeIdle
  /\ RaceIdle
  /\ RtIdle
  /\ TenantIdle
  /\ FleetIdle
  /\ \E len \in 1..MaxQueue, nullAt \in 0..MaxQueue :
       run = [st |-> [i \in 1..len |-> "queued"],
              hasDoc |-> [i \in 1..len |-> i # nullAt],
              k |-> 0, stage |-> "loop"]

RunFrame ==
  UNCHANGED <<index, mail, remote, last, pmsg, pprev, pstage, now, steps,
              proc, archived, rt, tIndex, tMail, tLast, jobs, reqs, overlapped>>

RunNext ==
  \/ BatchStart /\ RunFrame
  \/ \E i \in 1..Len(run.st) : AiCall(i) /\ RunFrame
  \/ \E i \in 1..Len(run.st), ok \in BOOLEAN : AiReturn(i, ok) /\ RunFrame
  \/ BatchEnd /\ RunFrame

RunSpec == RunInit /\ [][RunNext]_vars

\* import, rescore and archive of one user as concurrent requests
RaceInit ==
  /\ index = NoIndex
  /\ mail = [id \in AllIds |-> NoDoc]
  /\ remote \in [GoogleIds -> SUBSET MidIdx]
  /\ last = NoOp
  /\ steps = 0
  /\ PipeIdle
  /\ proc = [p \in Ops |-> IdleProc]
  /\ archived = {}
  /\ overlapped = {}
  /\ RtIdle
  /\ TenantIdle
  /\ FleetIdle
  /\ RunIdle

RaceFrame ==
  UNCHANGED <<last, pmsg, pprev, pstage, now, steps, rt, tIndex, tMail, tLast,
              jobs, reqs, run, overlapped>>

RaceNext ==
  \/ ImportRead /\ RaceFrame
  \/ ImportFetch /\ RaceFrame
  \/ ImportWrite /\ RaceFrame
  \/ RescoreRead /\ RaceFrame
  \/ RescoreScore /\ RaceFrame
  \/ RescoreWrite /\ RaceFrame
  \/ \E id \in AllIds : ArchiveRead(id) /\ RaceFrame
  \/ ArchiveWrite /\ RaceFrame
  \/ \E a \in GoogleIds, i \in MidIdx : RaceArrive(a, i) /\ RaceFrame

RaceSpec == RaceInit /\ [][RaceNext]_vars

\* importNewEmails and supplySummaries of one user as concurrent requests
OverlapOps == {"importNewEmails", "supplySummaries"}

OverlapInit ==
  /\ StoreInit
  /\ PipeIdle
  /\ proc = [p \in OverlapOps |-> IdleProc]
  /\ archived = {}
  /\ overlapped = {}
  /\ RtIdle
  /\ TenantIdle
  /\ FleetIdle
  /\ RunIdle

OverlapFrame ==
  UNCHANGED <<last, pmsg, pprev, pstage, now, steps, rt, tIndex, tMail, tLast,
              jobs, reqs, run>>

OverlapNext ==
  \/ ImportRead /\ UNCHANGED overlapped /\ OverlapFrame
  \/ ImportFetch /\ UNCHANGED overlapped /\ OverlapFrame
  \/ /\ ImportWrite
     /\ overlapped' = IF proc["supplySummaries"].pc # "idle"
                       THEN overlapped \cup Range(proc["importNewEmails"].newIds)
                       ELSE overlapped
     /\ OverlapFrame
  \/ SupplyRead /\ overlapped' = {} /\ OverlapFrame
  \/ \E replies \in [Range(proc["supplySummaries"].cachedIds.summarizationQueue)
                        -> StoreReplies] :
       SupplyWrite(replies) /\ UNCHANGED overlapped /\ OverlapFrame
  \/ \E a \in GoogleIds, i \in MidIdx :
       RaceArrive(a, i) /\ UNCHANGED overlapped /\ OverlapFrame

OverlapSpec == OverlapInit /\ [][OverlapNext]_vars

\* composeId followed by decomposeId on one pair of ids
RtInit ==
  /\ StoreInit
  /\ PipeIdle
  /\ RaceIdle
  /\ \E a \in IdStrings, p \in IdStrings :
       rt = [stage |-> "input", accountId |-> a, providerId |-> p, id |-> <<>>,
             out |-> [err |-> FALSE, userId |-> <<>>, accountId |-> <<>>,
                      providerId |-> <<>>]]
  /\ TenantIdle
  /\ FleetIdle
  /\ RunIdle

RtFrame ==
  UNCHANGED <<index, mail, remote, last, pmsg, pprev, pstage, now, steps,
              proc, archived, tIndex, tMail, tLast, jobs, reqs, run, overlapped>>

RtNext ==
  \/ RtCompose /\ RtFrame
  \/ RtDecompose /\ RtFrame

RtSpec == RtInit /\ [][RtNext]_vars

\* the cache instances of several users over one document store
TenantInit ==
  /\ StoreInit
  /\ PipeIdle
  /\ RaceIdle
  /\ RtIdle
  /\ tIndex = [k \in {cacheIdsKey(u) : u \in TenantUsers} |-> NoIndex]
  /\ tMail = [k \in TenantKeys |-> NoTenantDoc]
  /\ tLast = [op |-> "none", user |-> <<>>, preMail |-> tMail, preIndex |-> tIndex]
  /\ FleetIdle
  /\ RunIdle

TenantStep(A) ==
  /\ steps < MaxSteps
  /\ steps' = steps + 1
  /\ A
  /\ UNCHANGED <<index, mail, remote, last, pmsg, pprev, pstage, now,
                 proc, archived, rt, jobs, reqs, run, overlapped>>

TenantNext ==
  \/ \E u \in TenantUsers : TenantStep(TImport(u))
  \/ \E u \in TenantUsers : TenantStep(TRescore(u))
  \/ \E u \in TenantUsers, id \in TenantKeys : TenantStep(TArchive(u, id))

TenantSpec == TenantInit /\ [][TenantNext]_vars

\* fleet refresh requests arriving at one process
FleetInit ==
  /\ StoreInit
  /\ PipeIdle
  /\ RaceIdle
  /\ RtIdle
  /\ TenantIdle
  /\ jobs = 0
  /\ reqs = [r \in ReqIds |-> NewReq]
  /\ RunIdle

FleetFrame ==
  UNCHANGED <<index, mail, remote, last, pmsg, pprev, pstage, now, steps,
              proc, archived, rt, tIndex, tMail, tLast, run, overlapped>>

FleetNext ==
  \/ \E r \in ReqIds : FleetCheck(r) /\ FleetFrame
  \/ \E r \in ReqIds, ok \in BOOLEAN : FleetGetUsers(r, ok) /\ FleetFrame
  \/ \E r \in ReqIds : FleetLaunch(r) /\ FleetFrame
  \/ \E r \in ReqIds : FleetTaskEnd(r) /\ FleetFrame

FleetSpec == FleetInit /\ [][FleetNext]_vars

(* ------------------------------- claims ------------------------------- *)
Queued(id) == Includes(index.summarizationQueue, id)

SortedDesc(s, score) == \A i \in 1..(Len(s) - 1) : score[s[i]] >= score[s[i+1]]

Without(s, x) == SelectSeq(s, LAMBDA y : y # x)

\* the composite ids under the INBOX label when the last operation ran
Listed == UNION {{composeId(a, Mid(i)) : i \in last.listed[a]} : a \in GoogleIds}

\* C1: when supplySummaries has run the queue, every message whose five
\* passes completed without error is out of summarizationQueue in the index
\* written at the end and still in ids, and every message with a failed pass
\* is still queued.
C1_SuccessLeavesQueue ==
  (last.op = "supplySummaries" /\ last.updated) =>
    /\ \A id \in last.passed : ~Queued(id) /\ Includes(index.ids, id)
    /\ \A id \in Range(last.pre.summarizationQueue) \ last.passed : Queued(id)

\* C2: after supplySummaries processed a message without error, get(id)
\* returns a document that carries the derived fields of the passes
\* (summaries, sentiment, the scores and the priority label).
C2_EnrichmentWrittenBack ==
  (last.op = "supplySummaries" /\ last.ok) =>
    \A id \in last.passed :
      /\ get(id).exists
      /\ get(id).summarized
      /\ get(id).sentiment # ""
      /\ get(id).scored
      /\ get(id).priorityLabel # ""

\* C3: a queued message for which an invocation of supplySummaries completed
\* all passes eventually leaves summarizationQueue, when the queue is
\* processed again and again.
C3_QueueEventuallyDrains ==
  \A id \in AllIds :
    (Queued(id) /\ last.op = "supplySummaries" /\ id \in last.passed) ~> ~Queued(id)

\* C4: a successful importNewEmails that directly follows a successful one,
\* with the same remote listing, leaves ids as it was (nothing appended, no
\* duplicates), writes no message document and leaves newMail and
\* summarizationQueue as they were.
C4_ImportIdempotent ==
  (last.op = "importNewEmails" /\ last.ok /\ last.again) =>
    /\ index.ids = last.pre.ids
    /\ Dedup(index.ids) = index.ids
    /\ last.wrote = {}
    /\ index.newMail = last.pre.newMail
    /\ index.summarizationQueue = last.pre.summarizationQueue

C4_Witness ==
  /\ last.op = "importNewEmails" /\ last.ok /\ last.again
  /\ Len(index.ids) >= 2
  /\ index.inbox # <<>>

\* C5: in every index state between operations, inbox and deletables hold
\* the same set of ids.
C5_ViewsSameSet ==
  index.exists => Range(index.inbox) = Range(getDeletables(index))

\* C6: in every index state between operations, every id of inbox is in ids.
C6_InboxWithinIds == Range(index.inbox) \subseteq Range(index.ids)

C6_Witness ==
  /\ index.exists
  /\ Len(index.inbox) >= 1
  /\ Len(index.ids) > Len(index.inbox)

\* C7: right after updateInbox completed, the persisted inbox and deletables
\* hold the ids inbox held on entry, inbox is in non-increasing order of the
\* stored priorityScore and deletables of the stored deletableScore.
C7_UpdateInboxSorts ==
  last.updated =>
    /\ index.hasDeletables
    /\ Range(index.inbox) = Range(last.pre.inbox)
    /\ Range(index.deletables) = Range(last.pre.inbox)
    /\ Len(index.inbox) = Len(last.pre.inbox)
    /\ Len(index.deletables) = Len(last.pre.inbox)
    /\ SortedDesc(index.inbox, [id \in Range(index.inbox) |-> get(id).priorityScore])
    /\ SortedDesc(index.deletables,
                  [id \in Range(index.deletables) |-> get(id).deletableScore])

C7_Witness ==
  /\ last.updated
  /\ Len(index.inbox) >= 2
  /\ get(index.inbox[1]).priorityScore > get(index.inbox[2]).priorityScore
  /\ get(index.deletables[1]).deletableScore > get(index.deletables[2]).deletableScore
  /\ index.deletables # index.inbox

\* C8: archive(id) with id in inbox makes one index write, after which id is
\* in neither view, the other ids keep their order in both views, ids is
\* unchanged and get(id) still returns the document.
C8_ArchiveRemovesFromViews ==
  (last.op = "archive" /\ Includes(last.pre.inbox, last.id)) =>
    /\ last.ok
    /\ last.indexWrites = 1
    /\ ~Includes(index.inbox, last.id)
    /\ ~Includes(getDeletables(index), last.id)
    /\ index.inbox = Without(last.pre.inbox, last.id)
    /\ getDeletables(index) = Without(getDeletables(last.pre), last.id)
    /\ index.ids = last.pre.ids
    /\ get(last.id).exists

C8_Witness ==
  /\ last.op = "archive" /\ last.ok
  /\ last.pre.hasDeletables
  /\ Len(last.pre.inbox) >= 2
  /\ last.pre.inbox[1] = last.id
  /\ Includes(last.pre.deletables, last.id)

\* C9: archive(id) with id not in inbox throws its not-found error and
\* leaves the index document as it was, without a write.
C9_ArchiveOfAbsentId ==
  (last.op = "archive" /\ ~Includes(last.pre.inbox, last.id)) =>
    /\ ~last.ok
    /\ last.err \in {"Inbox not found", "Email not found in inbox"}
    /\ last.indexWrites = 0
    /\ index = last.pre

C9_Witness ==
  /\ last.op = "archive" /\ ~last.ok
  /\ Includes(index.ids, last.id)
  /\ index.inbox # <<>>
  /\ index.hasDeletables

\* C10: a message that went through the five passes has importanceScore,
\* spamScore, urgencyScore, deletableScore and priorityScore between 0 and 1.
C10_ScoresWithinBounds ==
  pstage = "sentimentAnalyzed" =>
    \A x \in {pmsg.importanceScore, pmsg.spamScore, pmsg.urgencyScore,
              pmsg.deletableScore, pmsg.priorityScore} : 0 <= x /\ x <= One

\* C11: when archive(id) and rescore have interleaved at their store calls and
\* both are over, id is in neither inbox nor deletables (as long as no import
\* has listed the inbox afresh since).
C11_ArchiveSurvivesRescore ==
  (proc["archive"].pc = "idle" /\ proc["rescore"].pc = "idle") =>
    \A id \in archived :
      ~Includes(index.inbox, id) /\ ~Includes(getDeletables(index), id)

\* C12: the ids ledger is append-only in every execution, interleavings of
\* importNewEmails with rescore or archive included: from one index state to
\* the next every id of ids stays in ids, and the old entries keep their order.
C12_LedgerAppendOnly ==
  [][/\ Range(index.ids) \subseteq Range(index'.ids)
     /\ SelectSeq(index'.ids, LAMBDA id : id \in Range(index.ids)) = index.ids]_vars

\* C13: an importNewEmails that fails part-way throws and leaves the index
\* document exactly as it was before the call; the message documents it
\* wrote before the failure stay.
C13_FailedImportKeepsIndex ==
  (last.op = "importNewEmails" /\ ~last.ok) =>
    /\ last.err # ""
    /\ last.indexWrites = 0
    /\ index = last.pre
    /\ \A id \in last.wrote : get(id).exists

C13_Witness ==
  /\ last.op = "importNewEmails" /\ ~last.ok
  /\ index.exists
  /\ last.wrote # {}
  /\ \E id \in last.wrote : ~Includes(index.ids, id)

\* C14: for an accountId and a providerId without '#', decomposeId of
\* composeId(accountId, providerId) gives back that accountId and providerId.
C14_RoundTrip ==
  (rt # <<>> /\ rt.stage = "decomposed"
     /\ ~Includes(rt.accountId, "#") /\ ~Includes(rt.providerId, "#")) =>
    /\ ~rt.out.err
    /\ rt.out.accountId = rt.accountId
    /\ rt.out.providerId = rt.providerId

C14_Witness ==
  /\ rt # <<>> /\ rt.stage = "decomposed"
  /\ ~Includes(rt.accountId, "#") /\ ~Includes(rt.providerId, "#")
  /\ Len(rt.accountId) = 2
  /\ Len(rt.providerId) = 2
  /\ rt.accountId # rt.providerId

\* C15: rescore makes no AI summarization call and changes only scores and
\* view order: ids, newMail, summarizationQueue and the set of ids in inbox
\* are as before, the documents differ from before in their score fields
\* only, and both views are rebuilt from the rescored documents.
C15_RescoreFrame ==
  (last.op = "rescore") =>
    /\ last.aiCalls = 0
    /\ index.ids = last.pre.ids
    /\ index.newMail = last.pre.newMail
    /\ index.summarizationQueue = last.pre.summarizationQueue
    /\ Range(index.inbox) = Range(last.pre.inbox)
    /\ (last.pre.exists /\ last.pre.inbox # <<>>) =>
         /\ last.updated
         /\ \A id \in DOMAIN mail :
              [mail[id] EXCEPT !.scored = last.preMail[id].scored,
                               !.importanceScore = last.preMail[id].importanceScore,
                               !.urgencyScore = last.preMail[id].urgencyScore,
                               !.deletableScore = last.preMail[id].deletableScore,
                               !.priorityScore = last.preMail[id].priorityScore,
                               !.priorityLabel = last.preMail[id].priorityLabel]
                = last.preMail[id]
         /\ \A id \in Range(index.inbox) : mail[id].scored
         /\ Range(getDeletables(index)) = Range(index.inbox)
         /\ SortedDesc(index.inbox, [id \in Range(index.inbox) |-> get(id).priorityScore])
         /\ SortedDesc(index.deletables,
                       [id \in Range(index.deletables) |-> get(id).deletableScore])

C15_Witness ==
  /\ last.op = "rescore" /\ last.updated
  /\ Len(index.inbox) >= 2
  /\ index.deletables # index.inbox
  /\ index.summarizationQueue # <<>>
  /\ \E id \in Range(index.inbox) : mail[id] # last.preMail[id]

\* C16: an operation run for one user never creates or overwrites the index
\* document or a message document of another user.
C16_NoCrossUserWrite ==
  (tLast # <<>> /\ tLast.op # "none") =>
    /\ \A k \in DOMAIN tMail :
         tMail[k] # tLast.preMail[k] =>
           (~tLast.preMail[k].doc.exists \/ tLast.preMail[k].userId = tLast.user)
    /\ \A u \in TenantUsers \ {tLast.user} :
         tIndex[cacheIdsKey(u)] = tLast.preIndex[cacheIdsKey(u)]

\* C17: a fleet refresh request that arrives while the job counter is
\* positive still launches its per-user refresh tasks (unless listing the
\* users fails).
C17_PositiveCounterStillLaunches ==
  \A r \in DOMAIN reqs :
    (reqs[r].seen > 0 /\ reqs[r].pc \in {"rejected", "launched"}) =>
      reqs[r].launched = NumUsers

\* C17, amended: a fleet refresh request that arrives while the job counter is
\* positive is turned away and launches no per-user refresh task; a request
\* that arrives while the counter is 0 and gets the user list launches one
\* task per user.
C17_PositiveCounterTurnsAway ==
  \A r \in DOMAIN reqs :
    /\ (reqs[r].pc # "new" /\ reqs[r].seen > 0) =>
         (reqs[r].pc = "rejected" /\ reqs[r].launched = 0 /\ reqs[r].running = 0)
    /\ (reqs[r].pc = "launched") =>
         (reqs[r].seen = 0 /\ reqs[r].launched = NumUsers)

C17_Witness ==
  \E r, q \in DOMAIN reqs :
    /\ reqs[r].pc = "rejected" /\ reqs[r].seen > 0
    /\ reqs[q].pc = "launched" /\ reqs[q].running > 0

\* C18: after a successful importNewEmails, ids is the old ids followed by
\* exactly the listed composite ids that were not in the old ids, a document
\* with importanceScore 0 and spamScore 0 was written for each of those and
\* for no other id, and newMail and summarizationQueue are their old values
\* followed by the same new ids.
C18_ImportAppendsNewIds ==
  (last.op = "importNewEmails" /\ last.ok) =>
    LET old == last.pre.ids
        new == SubSeq(index.ids, Len(old) + 1, Len(index.ids))
    IN /\ Len(index.ids) >= Len(old)
       /\ SubSeq(index.ids, 1, Len(old)) = old
       /\ Range(new) = Listed \ Range(old)
       /\ Cardinality(Range(new)) = Len(new)
       /\ last.wrote = Range(new)
       /\ \A id \in Range(new) :
            get(id).exists /\ get(id).importanceScore = 0 /\ get(id).spamScore = 0
       /\ index.newMail = last.pre.newMail \o new
       /\ index.summarizationQueue = last.pre.summarizationQueue \o new

C18_Witness ==
  /\ last.op = "importNewEmails" /\ last.ok
  /\ last.pre.exists
  /\ last.pre.summarizationQueue # <<>>
  /\ Len(index.ids) > Len(last.pre.ids)
  /\ Listed \cap Range(last.pre.ids) # {}

\* C19: after a successful importNewEmails, inbox is exactly the composite ids
\* listed under the INBOX label now; an id that was in inbox and is no longer
\* listed is out of inbox, still in ids and still returned by get.
C19_InboxIsListing ==
  (last.op = "importNewEmails" /\ last.ok) =>
    /\ Range(index.inbox) = Listed
    /\ Len(index.inbox) = Cardinality(Listed)
    /\ \A id \in Range(last.pre.inbox) \ Listed :
         /\ ~Includes(index.inbox, id)
         /\ Includes(index.ids, id)
         /\ get(id).exists

C19_Witness ==
  /\ last.op = "importNewEmails" /\ last.ok
  /\ Range(last.pre.inbox) \ Listed # {}
  /\ index.inbox # <<>>

\* C20: whenever supplySummaries returns normally, also when the queue was
\* empty on entry, the persisted index has inbox in non-increasing order of
\* priorityScore and deletables a permutation of inbox in non-increasing
\* order of deletableScore.
C20_ViewsSortedAfterSupply ==
  (last.op = "supplySummaries" /\ last.ok /\ index.exists) =>
    /\ SortedDesc(index.inbox, [id \in Range(index.inbox) |-> get(id).priorityScore])
    /\ Range(getDeletables(index)) = Range(index.inbox)
    /\ Len(getDeletables(index)) = Len(index.inbox)
    /\ SortedDesc(getDeletables(index),
                  [id \in Range(getDeletables(index)) |-> get(id).deletableScore])

C20_Witness ==
  /\ last.op = "supplySummaries" /\ last.ok
  /\ ~last.pre.hasDeletables
  /\ Len(index.inbox) >= 2
  /\ index.deletables # index.inbox

\* C21: a failure while enriching one queued message, also when the queued
\* id has no stored document, does not abort supplySummaries: no error
\* reaches the caller, every queued message is attempted and the views are
\* rebuilt at the end.
C21_FailureIsolated ==
  (/\ last.op = "supplySummaries"
   /\ last.pre.exists
   /\ last.pre.summarizationQueue # <<>>) =>
    /\ last.ok
    /\ last.attempted = Range(last.pre.summarizationQueue)
    /\ last.updated

\* C22: the batches of one run go strictly one after another: no AI call for
\* an email of a later batch has started while an email of an earlier batch is
\* unfinished, and at most BATCH_SIZE AI calls are in flight at any moment.
C22_BatchesSequential ==
  LET len == Len(run.st)
      called == {i \in 1..len : run.st[i] \in {"inflight", "done", "failed"}}
  IN /\ Cardinality({i \in 1..len : run.st[i] = "inflight"}) <= BATCH_SIZE
     /\ \A i \in 1..len, j \in called :
          (i - 1) \div BATCH_SIZE < (j - 1) \div BATCH_SIZE => run.st[i] \in Settled

C22_Witness ==
  /\ Len(run.st) > BATCH_SIZE
  /\ run.st[BATCH_SIZE + 1] = "inflight"
  /\ \E i \in 1..BATCH_SIZE : run.st[i] = "failed"

\* C23: every message older than 3 days that goes through the sentiment and
\* decay pass gets the temporal decay (decayApplied is recorded true and
\* priorityScore is multiplied by the decay factor, not below the floor),
\* whether or not it already carries a sentiment supplied by the AI.
C23_DecayAlwaysApplies ==
  (pstage = "sentimentAnalyzed" /\ now - pprev.date > 3) =>
    /\ pmsg.decayApplied
    /\ pmsg.decayFactor = decayFactorOf(now - pprev.date)
    /\ pmsg.priorityScore =
         Max((pprev.priorityScore * decayFactorOf(now - pprev.date)) \div One,
             (pprev.priorityScore * 3) \div 10)

\* C24: for a message older than 3 days the priorityScore the sentiment and
\* decay pass produces is not above the score before the pass, not below 30%
\* of it, and not above what the pass produces for the same message at any
\* earlier evaluation time.
C24_DecayBoundedMonotone ==
  (pstage = "sentimentAnalyzed" /\ now - pprev.date > 3) =>
    /\ pmsg.priorityScore <= pprev.priorityScore
    /\ pmsg.priorityScore >= (pprev.priorityScore * 3) \div 10
    /\ \A d \in 0..25 :
         LET earlier == applySentimentAnalysis(pprev, now - d).priorityScore
             later == applySentimentAnalysis(pprev, now + d).priorityScore
         IN /\ pmsg.priorityScore <= earlier
            /\ later <= pmsg.priorityScore

C24_Witness ==
  /\ pstage = "sentimentAnalyzed"
  /\ now - pprev.date > 3
  /\ pmsg.decayApplied
  /\ pmsg.priorityScore < pprev.priorityScore
  /\ applySentimentAnalysis(pprev, now + 1).priorityScore < pmsg.priorityScore

\* C25: applyAdvancedScoring returns a message whose priorityScore is
\* 0.7 * importanceScore + 0.3 * urgencyScore - 0.5 * deletableScore of the
\* scores it returns, clamped to [0, 1].
C25_PriorityFormula ==
  (pstage = "scored") =>
    LET raw == 7 * pmsg.importanceScore + 3 * pmsg.urgencyScore - 5 * pmsg.deletableScore
    IN /\ raw % 10 = 0
       /\ pmsg.priorityScore = (IF raw < 0 THEN 0
                                ELSE IF raw > 10 * One THEN One
                                ELSE raw \div 10)

C25_Witness ==
  /\ pstage = "scored"
  /\ pmsg.urgencyScore > 0
  /\ pmsg.deletableScore > 0
  /\ pmsg.importanceScore > 0
  /\ pmsg.priorityScore > 0
  /\ pmsg.priorityScore < One

\* C26: when the AI reply holds no JSON object, does not parse, lacks a
\* required field or has importanceScore or spamScore outside [0, 1], the
\* summarization of that message fails without partial credit: no field of
\* the stored message is changed by the attempt and the message stays in
\* summarizationQueue.
C26_InvalidReplyNoCredit ==
  (last.op = "supplySummaries" /\ last.ok) =>
    \A id \in DOMAIN last.replies :
      LET r == last.replies[id]
          bad == \/ ~r.json
                 \/ ~r.shape
                 \/ r.importanceScore < 0 \/ r.importanceScore > One
                 \/ r.spamScore < 0 \/ r.spamScore > One
      IN bad => /\ get(id) = last.preMail[id]
                /\ id \notin last.passed
                /\ Queued(id)

C26_Witness ==
  /\ last.op = "supplySummaries" /\ last.ok
  /\ \E id \in DOMAIN last.replies :
       /\ get(id).exists
       /\ last.replies[id].json
       /\ last.replies[id].shape
       /\ last.replies[id].importanceScore > One
  /\ \E id \in DOMAIN last.replies : id \in last.passed

\* C27: archive, moveToTrash and moveToJunk of MailService call the provider
\* first, with the provider id decomposed from the composite id, and touch
\* the cache only after that call succeeded: if the call fails the index is
\* unchanged, and when the operation returns normally the id is in neither
\* inbox nor deletables.
C27_RemoteBeforeCache ==
  (last.op \in {"moveToTrash", "moveToJunk", "MailService.archive"}) =>
    LET d == decomposeId(last.id)
        remoteDone == /\ last.remoteDone
                      /\ last.remoteKey = d.providerId
                      /\ d.accountId \in GoogleIds
    IN /\ ~last.remoteDone => index = last.pre
       /\ (index # last.pre) => remoteDone
       /\ last.ok => /\ remoteDone
                     /\ ~Includes(index.inbox, last.id)
                     /\ ~Includes(getDeletables(index), last.id)

C27_Witness ==
  /\ last.op = "moveToJunk"
  /\ last.ok
  /\ Includes(getDeletables(last.pre), last.id)
  /\ MidOf(last.id) \in last.preRemote[decomposeId(last.id).accountId]
  /\ index.inbox # <<>>

\* C28: the ids an importNewEmails appended to summarizationQueue while a
\* supplySummaries of the same user was in progress are still in
\* summarizationQueue, and in ids, when both operations are over.
C28_QueuedDuringRunSurvive ==
  (proc["supplySummaries"].pc = "idle" /\ proc["importNewEmails"].pc = "idle") =>
    \A id \in overlapped : Queued(id) /\ Includes(index.ids, id)

\* C29: rescore is idempotent: a rescore that follows a completed rescore
\* with no import, enrichment or archive in between and the clock unchanged
\* leaves every stored score of the inbox messages and both views as the
\* first run left them.
C29_RescoreIdempotent ==
  (last.op = "rescore" /\ last.again /\ last.updated) =>
    /\ \A id \in Range(index.inbox) :
         /\ get(id).importanceScore = last.preMail[id].importanceScore
         /\ get(id).urgencyScore = last.preMail[id].urgencyScore
         /\ get(id).deletableScore = last.preMail[id].deletableScore
         /\ get(id).priorityScore = last.preMail[id].priorityScore
         /\ get(id).priorityLabel = last.preMail[id].priorityLabel
    /\ index.inbox = last.pre.inbox
    /\ getDeletables(index) = getDeletables(last.pre)

\* C30: for every message that has a priorityLabel, after each pass of the
\* enrichment pipeline, the label is the tier of the message's current
\* priorityScore: Critical from 0.8, High from 0.6, Medium from 0.4, Low from
\* 0.2, Minimal below.
C30_LabelMatchesScore ==
  (pmsg.priorityLabel # "") =>
    LET p == pmsg.priorityScore
    IN pmsg.priorityLabel =
         (CASE p >= 800 -> "Critical"
            [] p >= 600 /\ p < 800 -> "High"
            [] p >= 400 /\ p < 600 -> "Medium"
            [] p >= 200 /\ p < 400 -> "Low"
            [] OTHER -> "Minimal")

====
